---------------------------- MODULE Spec2Model ----------------------------
(***************************************************************************)
(* Model of the watermark server (src/app.py): the two file stores         *)
(* (Uploads, watermarked), the retention sweeper thread, the batch         *)
(* processor (/process), the two delete handlers and the upload handler.   *)
(*                                                                         *)
(* A filename is the sequence of the pieces between its dots:              *)
(*   "a.jpg" = <<"a","jpg">>,  "d" = <<"d">>,  ".jpg" = <<"","jpg">>.      *)
(* A file is a record [fmt, mtime, id]: the format its content decodes to, *)
(* its modification time and the identity of the uploaded content it       *)
(* holds (an output keeps the id of the upload it was made from).          *)
(* Time is counted in hours.                                               *)
(***************************************************************************)
EXTENDS Integers, Sequences, FiniteSets, TLC

VARIABLES
    now,      \* the wall clock, datetime.now()
    fs,       \* folder -> (filename -> file): the two directories
    sw,       \* the cleanup thread: pc, cutoff, listing left, current file
    proc,     \* the /process handler
    del,      \* the delete handlers, one record per request thread
    nextId,   \* identity given to the next uploaded content
    log,      \* the responses sent so far, in order
    wm        \* the watermark arithmetic of add_watermark (lines 46-63)

vars == <<now, fs, sw, proc, del, nextId, log, wm>>

---------------------------------------------------------------------------
(* Program constants *)

UPLOAD_FOLDER == "Uploads"
WATERMARKED_FOLDER == "watermarked"
Folders == {UPLOAD_FOLDER, WATERMARKED_FOLDER}
ALLOWED_EXTENSIONS == {"jpg", "jpeg", "png", "heic", "heif"}

\* timedelta(hours=24), in hours
TTL == 24
\* time.sleep(3600), in hours
Period == 1

(* Bounds of the model *)

\* hours the clock may advance after the process starts
MaxTicks == 2
\* requests answered in one run
MaxReq == 2
\* uploads in one run
MaxUploads == 1
\* files in a folder when the process starts
MaxInitFiles == 3
\* files in one upload request
MaxStageFiles == 1

StartTime == TTL + 1
MaxClock == StartTime + MaxTicks

---------------------------------------------------------------------------
(* Filenames *)

Last(s) == s[Len(s)]
Front(s) == SubSeq(s, 1, Len(s) - 1)

\* str.lower() on the pieces the model uses
lower(s) ==
    CASE s = "JPG" -> "jpg"
      [] s = "HEIC" -> "heic"
      [] s = "PNG" -> "png"
      [] OTHER -> s

\* '.' in filename and filename.rsplit('.', 1)[1].lower() in ALLOWED_EXTENSIONS
allowed_file(filename) ==
    Len(filename) > 1 /\ lower(Last(filename)) \in ALLOWED_EXTENSIONS

\* os.path.splitext: <<root, ext>>, ext = <<>> for no extension and <<e>> for
\* "." + e; leading dots of the name start no extension
splitext(filename) ==
    IF Len(filename) > 1 /\ \E i \in 1..(Len(filename) - 1) : filename[i] # ""
    THEN <<Front(filename), <<Last(filename)>> >>
    ELSE <<filename, <<>> >>

\* filename.rsplit('.', 1)[0]
rsplit_stem(filename) ==
    IF Len(filename) > 1 THEN Front(filename) ELSE filename

\* "watermarked_" + stem
with_prefix(stem) == <<"watermarked_" \o stem[1]>> \o Tail(stem)

---------------------------------------------------------------------------
(* The file system *)

Exists(folder, name) == name \in DOMAIN fs[folder]

\* the directory with one file removed
Removed(dir, name) == [n \in (DOMAIN dir) \ {name} |-> dir[n]]

\* the directory with one file written (created or overwritten)
Written(dir, name, file) ==
    [n \in (DOMAIN dir) \cup {name} |-> IF n = name THEN file ELSE dir[n]]

---------------------------------------------------------------------------
(* Initial directory contents: os.makedirs(..., exist_ok=True) keeps whatever *)
(* an earlier run left in the two folders.                                   *)

StagedNames ==
    << <<"a", "jpg">>, <<"a", "jpeg">>, <<"b", "HEIC">>, <<"d", "png">>, <<"c", "txt">> >>
ProcessedNames == << <<"watermarked_a", "jpg">>, <<"c", "txt">> >>

Range(s) == {s[i] : i \in 1..Len(s)}

\* content left by an earlier run: staged files are told apart by their place
\* in StagedNames, outputs of an earlier run are all 0
InitId(folder, name) ==
    IF folder = UPLOAD_FOLDER
    THEN 0 - (CHOOSE i \in 1..Len(StagedNames) : StagedNames[i] = name)
    ELSE 0

\* every directory holding some of `names`, each file with a format of `fmts`
\* and a modification time of `times`
Dirs(folder, names, fmts, times) ==
    UNION {[S -> [fmt : fmts, mtime : times]] :
             S \in {T \in SUBSET names : Cardinality(T) <= MaxInitFiles}}

WithIds(folder, dir) ==
    [n \in DOMAIN dir |->
        [fmt |-> dir[n].fmt, mtime |-> dir[n].mtime, id |-> InitId(folder, n)]]

\* modification times around the first sweep's cutoff: older, equal, newer
InitTimes == {StartTime - TTL - 1, StartTime - TTL, StartTime - 1}

SwStart0 == [pc |-> "start", cutoff |-> 0, folder |-> UPLOAD_FOLDER,
             todo |-> {}, cur |-> <<>>]
NoImage == [fmt |-> "none", id |-> 0]
NoResp == [code |-> 0, name |-> <<>>]
\* files, todo: original_files and the part of it the loop has not reached;
\* cur: filename; img: the decoded image; out: the path add_watermark saved to;
\* links: download_links; resp: the response of the last request;
\* written: what this request has written into the watermarked folder, as
\* [name, id] (history, not program state)
ProcIdle == [pc |-> "idle", files |-> {}, todo |-> {}, cur |-> <<>>,
             img |-> NoImage, out |-> <<>>, links |-> <<>>, resp |-> NoResp,
             written |-> {}]
DelIdle == [pc |-> "idle", folder |-> UPLOAD_FOLDER, name |-> <<>>]
DelThreads == {1, 2}
\* base: base_image.size; logo: the size of the logo file; a: the alpha of one
\* pixel of the logo; size: (watermark_width, watermark_height); alpha: the
\* alpha after line 52; position: line 56
NoMark == [pc |-> "none", base |-> <<0, 0>>, logo |-> <<0, 0>>, a |-> 0,
           size |-> <<0, 0>>, alpha |-> 0, position |-> <<0, 0>>]

InitWith(U, W) ==
    /\ now = StartTime
    /\ fs = [f \in Folders |-> IF f = UPLOAD_FOLDER THEN WithIds(f, U) ELSE WithIds(f, W)]
    /\ sw = SwStart0
    /\ proc = ProcIdle
    /\ del = [t \in DelThreads |-> DelIdle]
    /\ nextId = 1
    /\ log = <<>>
    /\ wm = NoMark

---------------------------------------------------------------------------
(* The clock *)

Tick ==
    /\ now < MaxClock
    /\ now' = now + 1
    /\ UNCHANGED <<fs, sw, proc, del, nextId, log, wm>>

---------------------------------------------------------------------------
(* cleanup_old_files: the retention sweeper thread (lines 92-122) *)

\* mtime < cutoff
older_or_equal(mtime, cutoff) == mtime <= cutoff

older(mtime, cutoff) == mtime < cutoff

\* lines 95-99: now, cutoff, and the listing of the uploads folder
SwBegin ==
    /\ sw.pc = "start"
    /\ sw' = [sw EXCEPT !.pc = "scan", !.cutoff = now - TTL,
                        !.folder = UPLOAD_FOLDER,
                        !.todo = DOMAIN fs[UPLOAD_FOLDER]]
    /\ UNCHANGED <<now, fs, proc, del, nextId, log, wm>>

\* lines 99-101 and 111-113: the next filename of the listing, os.path.isfile
\* (cur, the loop's file_path, is dead between iterations and kept empty)
SwIsFile ==
    /\ sw.pc = "scan"
    /\ \E f \in sw.todo :
          sw' = IF Exists(sw.folder, f)
                THEN [sw EXCEPT !.todo = @ \ {f}, !.cur = f, !.pc = "mtime"]
                ELSE [sw EXCEPT !.todo = @ \ {f}]
    /\ UNCHANGED <<now, fs, proc, del, nextId, log, wm>>

\* lines 102-103 and 114-115: os.path.getmtime is outside the try block, so a
\* file that is gone by now raises out of the thread's function and ends it
SwGetMtime ==
    /\ sw.pc = "mtime"
    /\ sw' = IF ~Exists(sw.folder, sw.cur) THEN [SwStart0 EXCEPT !.pc = "dead"]
             ELSE IF older(fs[sw.folder][sw.cur].mtime, sw.cutoff)
                  THEN [sw EXCEPT !.pc = "remove"]
                  ELSE [sw EXCEPT !.pc = "scan", !.cur = <<>>]
    /\ UNCHANGED <<now, fs, proc, del, nextId, log, wm>>

\* lines 104-108 and 116-120: os.remove inside try/except; a missing file is
\* logged and the loop goes on
SwRemove ==
    /\ sw.pc = "remove"
    /\ fs' = IF Exists(sw.folder, sw.cur)
             THEN [fs EXCEPT ![sw.folder] = Removed(@, sw.cur)]
             ELSE fs
    /\ sw' = [sw EXCEPT !.pc = "scan", !.cur = <<>>]
    /\ UNCHANGED <<now, proc, del, nextId, log, wm>>

\* line 111: the uploads loop is over, list the watermarked folder
SwListWatermarked ==
    /\ sw.pc = "scan"
    /\ sw.todo = {}
    /\ sw.folder = UPLOAD_FOLDER
    /\ sw' = [sw EXCEPT !.folder = WATERMARKED_FOLDER,
                        !.todo = DOMAIN fs[WATERMARKED_FOLDER]]
    /\ UNCHANGED <<now, fs, proc, del, nextId, log, wm>>

\* line 122: both loops are over, time.sleep(3600) starts; the locals of the
\* sweep are dead from here on
SwSleep ==
    /\ sw.pc = "scan"
    /\ sw.todo = {}
    /\ sw.folder = WATERMARKED_FOLDER
    /\ sw' = [SwStart0 EXCEPT !.pc = "sleep"]
    /\ UNCHANGED <<now, fs, proc, del, nextId, log, wm>>

\* lines 122, 93: the sleep is over (the clock has moved on by the period,
\* as far as the model's clock goes) and the loop starts again
SwWake ==
    /\ sw.pc = "sleep"
    /\ sw' = [sw EXCEPT !.pc = "start"]
    /\ now' = IF now + Period <= MaxClock THEN now + Period ELSE MaxClock
    /\ UNCHANGED <<fs, proc, del, nextId, log, wm>>

cleanup_old_files ==
    \/ SwBegin
    \/ SwIsFile
    \/ SwGetMtime
    \/ SwRemove
    \/ SwListWatermarked
    \/ SwSleep
    \/ SwWake

Scanning == sw.pc \in {"start", "scan", "mtime", "remove"}
Idle == sw.pc = "sleep"

---------------------------------------------------------------------------
(* Responses *)

Respond(op, name, code) == log' = Append(log, [op |-> op, name |-> name, code |-> code])

\* a new request is accepted: fewer than MaxReq were, answered or in progress
InProgress ==
    (IF proc.pc = "idle" THEN 0 ELSE 1) + Cardinality({t \in DOMAIN del : del[t].pc # "idle"})

Accepting == Len(log) + InProgress < MaxReq

---------------------------------------------------------------------------
(* add_watermark (lines 34-89) *)

Formats == {"JPEG", "PNG", "HEIF", "GIF", "CORRUPT"}

\* Image.open and the loading of the pixels succeed
Decodable(fmt) == fmt # "CORRUPT"

\* lines 72-87: the extension and the format saved for original_format;
\* heic_fails: pillow_heif raises in the try block of lines 79-81
dispatch_heic_keeps_extension(original_format, heic_fails) ==
    IF original_format \in {"JPEG", "JPG"} THEN [ext |-> <<"jpg">>, fmt |-> "JPEG"]
    ELSE IF original_format = "PNG" THEN [ext |-> <<"png">>, fmt |-> "PNG"]
    ELSE IF original_format \in {"HEIC", "HEIF"}
         THEN [ext |-> <<"heic">>, fmt |-> IF heic_fails THEN "JPEG" ELSE "HEIC"]
    ELSE [ext |-> <<"jpg">>, fmt |-> "JPEG"]

dispatch(original_format, heic_fails) ==
    IF original_format \in {"JPEG", "JPG"} THEN [ext |-> <<"jpg">>, fmt |-> "JPEG"]
    ELSE IF original_format = "PNG" THEN [ext |-> <<"png">>, fmt |-> "PNG"]
    ELSE IF original_format \in {"HEIC", "HEIF"}
         THEN IF heic_fails THEN [ext |-> <<"jpg">>, fmt |-> "JPEG"]
                            ELSE [ext |-> <<"heic">>, fmt |-> "HEIC"]
    ELSE [ext |-> <<"jpg">>, fmt |-> "JPEG"]

\* lines 70-87: the name of the file saved for the requested output name
saved_name(output_name, original_format, heic_fails) ==
    splitext(output_name)[1] \o dispatch(original_format, heic_fails).ext

---------------------------------------------------------------------------
(* process_files: POST /process (lines 163-188) *)

\* lines 174-175
output_ext(filename) ==
    LET ext == splitext(filename)[2]
        original_ext == IF ext = <<>> THEN <<>> ELSE <<lower(ext[1])>>
    IN  IF original_ext \in {<<"heic">>, <<"heif">>} THEN <<"heic">>
        ELSE IF original_ext = <<"png">> THEN <<"png">>
        ELSE <<"jpg">>

\* line 176
output_filename(filename) ==
    with_prefix(rsplit_stem(filename)) \o output_ext(filename)

ProcBegin_unfiltered ==
    /\ proc.pc = "idle"
    /\ Accepting
    /\ LET original_files == DOMAIN fs[UPLOAD_FOLDER]
       IN  IF original_files = {}
           THEN /\ proc' = [ProcIdle EXCEPT !.resp = [code |-> 400, name |-> <<>>]]
                /\ Respond("process", <<>>, 400)
           ELSE /\ proc' = [ProcIdle EXCEPT !.pc = "loop",
                                            !.files = original_files,
                                            !.todo = original_files]
                /\ UNCHANGED log
    /\ UNCHANGED <<now, fs, sw, del, nextId, wm>>

\* lines 166-169: the snapshot of the staged listing
ProcBegin ==
    /\ proc.pc = "idle"
    /\ Accepting
    /\ LET original_files == {f \in DOMAIN fs[UPLOAD_FOLDER] : allowed_file(f)}
       IN  IF original_files = {}
           THEN /\ proc' = [ProcIdle EXCEPT !.resp = [code |-> 400, name |-> <<>>]]
                /\ Respond("process", <<>>, 400)
           ELSE /\ proc' = [ProcIdle EXCEPT !.pc = "loop",
                                            !.files = original_files,
                                            !.todo = original_files]
                /\ UNCHANGED log
    /\ UNCHANGED <<now, fs, sw, del, nextId, wm>>

\* lines 184-186: the except branch, naming the file
ProcFail_unnamed(wr) ==
    /\ proc' = [proc EXCEPT !.pc = "idle", !.resp = [code |-> 500, name |-> <<>>],
                            !.written = wr]
    /\ Respond("process", <<>>, 500)

ProcFail(wr) ==
    /\ proc' = [proc EXCEPT !.pc = "idle", !.resp = [code |-> 500, name |-> proc.cur],
                            !.written = wr]
    /\ Respond("process", proc.cur, 500)

\* lines 172-177, 38-43: the next file of the snapshot (os.listdir gives no
\* order) is opened and decoded
ProcOpen ==
    /\ proc.pc = "loop"
    /\ \E f \in proc.todo :
          IF Exists(UPLOAD_FOLDER, f) /\ Decodable(fs[UPLOAD_FOLDER][f].fmt)
          THEN /\ proc' = [proc EXCEPT !.pc = "save", !.cur = f, !.todo = @ \ {f},
                                       !.img = [fmt |-> fs[UPLOAD_FOLDER][f].fmt,
                                                id |-> fs[UPLOAD_FOLDER][f].id]]
               /\ UNCHANGED log
          ELSE /\ proc' = [proc EXCEPT !.pc = "idle", !.cur = f, !.todo = @ \ {f},
                                       !.resp = [code |-> 500, name |-> f]]
               /\ Respond("process", f, 500)
    /\ UNCHANGED <<now, fs, sw, del, nextId, wm>>

\* lines 46-87: composite and save. save_fails: the final save raises (a mode
\* the encoder refuses, an I/O error); leaves: the failed save leaves the
\* file it had opened for writing behind, truncated
ProcSave ==
    /\ proc.pc = "save"
    /\ \E heic_fails \in BOOLEAN, save_fails \in BOOLEAN, leaves \in BOOLEAN :
          LET target == dispatch(proc.img.fmt, heic_fails)
              name == saved_name(output_filename(proc.cur), proc.img.fmt, heic_fails)
              dir == fs[WATERMARKED_FOLDER]
          IN  IF save_fails
              THEN /\ fs' = IF leaves
                            THEN [fs EXCEPT ![WATERMARKED_FOLDER] =
                                    Written(dir, name, [fmt |-> "CORRUPT", mtime |-> now,
                                                        id |-> proc.img.id])]
                            ELSE fs
                   /\ ProcFail(IF leaves
                               THEN proc.written \cup {[name |-> name, id |-> proc.img.id]}
                               ELSE proc.written)
              ELSE /\ fs' = [fs EXCEPT ![WATERMARKED_FOLDER] =
                                Written(dir, name, [fmt |-> target.fmt, mtime |-> now,
                                                    id |-> proc.img.id])]
                   /\ proc' = [proc EXCEPT !.pc = "remove", !.out = name,
                                           !.written = @ \cup {[name |-> name,
                                                                id |-> proc.img.id]}]
                   /\ UNCHANGED log
    /\ UNCHANGED <<now, sw, del, nextId, wm>>

ProcRemove_relisting ==
    /\ proc.pc = "remove"
    /\ IF Exists(UPLOAD_FOLDER, proc.cur)
       THEN /\ fs' = [fs EXCEPT ![UPLOAD_FOLDER] = Removed(@, proc.cur)]
            /\ proc' = [proc EXCEPT !.pc = "loop",
                                    !.todo = {f \in DOMAIN fs'[UPLOAD_FOLDER] :
                                                 allowed_file(f)},
                                    !.links = Append(@, output_filename(proc.cur))]
            /\ UNCHANGED log
       ELSE /\ UNCHANGED fs
            /\ ProcFail(proc.written)
    /\ UNCHANGED <<now, sw, del, nextId, wm>>

\* lines 181-182: the staged original is removed and the link appended; a
\* staged file that is gone by now raises into the except branch
ProcRemove ==
    /\ proc.pc = "remove"
    /\ IF Exists(UPLOAD_FOLDER, proc.cur)
       THEN /\ fs' = [fs EXCEPT ![UPLOAD_FOLDER] = Removed(@, proc.cur)]
            /\ proc' = [proc EXCEPT !.pc = "loop",
                                    !.links = Append(@, output_filename(proc.cur))]
            /\ UNCHANGED log
       ELSE /\ UNCHANGED fs
            /\ ProcFail(proc.written)
    /\ UNCHANGED <<now, sw, del, nextId, wm>>

\* line 188: the loop is over
ProcDone ==
    /\ proc.pc = "loop"
    /\ proc.todo = {}
    /\ proc' = [proc EXCEPT !.pc = "idle", !.resp = [code |-> 200, name |-> <<>>]]
    /\ Respond("process", <<>>, 200)
    /\ UNCHANGED <<now, fs, sw, del, nextId, wm>>

process_files ==
    \/ ProcBegin
    \/ ProcOpen
    \/ ProcSave
    \/ ProcRemove
    \/ ProcDone

---------------------------------------------------------------------------
(* delete_file: GET /delete/<filename> (lines 197-209) and                *)
(* delete_original_file: GET /delete_original/<filename> (lines 218-230)  *)

DeleteCheck_exists_only(t, op, folder, name) ==
    /\ del[t].pc = "idle"
    /\ Len(log) + InProgress < MaxReq
    /\ IF Exists(folder, name)
       THEN /\ del' = [del EXCEPT ![t] = [pc |-> "remove", folder |-> folder,
                                          name |-> name]]
            /\ UNCHANGED log
       ELSE /\ UNCHANGED del
            /\ Respond(op, name, 404)
    /\ UNCHANGED <<now, fs, sw, proc, nextId, wm>>

\* lines 201, 222: os.path.exists(file_path) and allowed_file(filename);
\* lines 208-209, 229-230: 404 otherwise
DeleteCheck(t, op, folder, name) ==
    /\ del[t].pc = "idle"
    /\ Accepting
    /\ IF Exists(folder, name) /\ allowed_file(name)
       THEN /\ del' = [del EXCEPT ![t] = [pc |-> "remove", folder |-> folder,
                                          name |-> name]]
            /\ UNCHANGED log
       ELSE /\ UNCHANGED del
            /\ Respond(op, name, 404)
    /\ UNCHANGED <<now, fs, sw, proc, nextId, wm>>

\* lines 202-207, 223-228: os.remove in try/except; 200, or 500 when it raises
DeleteRemove(t, op, folder) ==
    /\ del[t].pc = "remove"
    /\ del[t].folder = folder
    /\ LET name == del[t].name
       IN  IF Exists(folder, name)
           THEN /\ fs' = [fs EXCEPT ![folder] = Removed(@, name)]
                /\ Respond(op, name, 200)
           ELSE /\ UNCHANGED fs
                /\ Respond(op, name, 500)
    /\ del' = [del EXCEPT ![t] = DelIdle]
    /\ UNCHANGED <<now, sw, proc, nextId, wm>>

\* the filenames a delete request may carry
DeleteNames ==
    {<<"a", "jpg">>, <<"c", "txt">>, <<"watermarked_a", "jpg">>}

delete_file(t) ==
    \/ \E name \in DeleteNames : DeleteCheck(t, "delete", WATERMARKED_FOLDER, name)
    \/ DeleteRemove(t, "delete", WATERMARKED_FOLDER)

delete_original_file(t) ==
    \/ \E name \in DeleteNames : DeleteCheck(t, "delete_original", UPLOAD_FOLDER, name)
    \/ DeleteRemove(t, "delete_original", UPLOAD_FOLDER)

---------------------------------------------------------------------------
(* stage_files: POST /stage (lines 129-152) *)

\* the uploaded files a request may carry: filename and content
UploadNames == {<<"a", "jpg">>, <<"c", "txt">>, <<"d">>, <<"">>}
UploadFormats == {"JPEG"}
Uploads == [filename : UploadNames, fmt : UploadFormats]

\* sequences of at most n elements of S
RECURSIVE SeqsUpTo(_, _)
SeqsUpTo(S, n) ==
    IF n = 0 THEN {<<>>}
    ELSE LET shorter == SeqsUpTo(S, n - 1)
         IN  shorter \cup {Append(q, x) : q \in {r \in shorter : Len(r) = n - 1}, x \in S}

RECURSIVE SaveAll_unchecked(_, _, _, _, _)
SaveAll_unchecked(dir, files, i, stop, id) ==
    IF i > stop THEN [dir |-> dir, id |-> id]
    ELSE SaveAll_unchecked(Written(dir, files[i].filename,
                                   [fmt |-> files[i].fmt, mtime |-> now, id |-> id]),
                           files, i + 1, stop, id + 1)

\* lines 141-147: files[i..stop] saved in turn, each allowed one under its
\* own filename, with the clock's time and the next identity
RECURSIVE SaveAll(_, _, _, _, _)
SaveAll(dir, files, i, stop, id) ==
    IF i > stop THEN [dir |-> dir, id |-> id]
    ELSE IF allowed_file(files[i].filename)
         THEN SaveAll(Written(dir, files[i].filename,
                              [fmt |-> files[i].fmt, mtime |-> now, id |-> id]),
                      files, i + 1, stop, id + 1)
         ELSE SaveAll(dir, files, i + 1, stop, id)

\* fail_at: the file whose save raises (0: none does)
stage_files ==
    /\ Accepting
    /\ \E files \in SeqsUpTo(Uploads, MaxStageFiles), fail_at \in 0..MaxStageFiles :
          /\ fail_at <= Len(files)
          /\ fail_at # 0 => allowed_file(files[fail_at].filename)
          /\ IF files = <<>> \/ \A i \in 1..Len(files) : files[i].filename = <<"">>
             THEN /\ fail_at = 0
                  /\ Respond("stage", <<>>, 400)
                  /\ UNCHANGED <<fs, nextId>>
             ELSE LET stop == IF fail_at = 0 THEN Len(files) ELSE fail_at - 1
                      saved == SaveAll(fs[UPLOAD_FOLDER], files, 1, stop, nextId)
                  IN  /\ saved.id <= MaxUploads + 1
                      /\ fs' = [fs EXCEPT ![UPLOAD_FOLDER] = saved.dir]
                      /\ nextId' = saved.id
                      /\ IF fail_at = 0
                         THEN Respond("stage", <<>>, 200)
                         ELSE Respond("stage", files[fail_at].filename, 500)
    /\ UNCHANGED <<now, sw, proc, del, wm>>

---------------------------------------------------------------------------
(* Python floats: IEEE 754 doubles, kept as the digits of the significand. *)
(* A positive float is [digits, exp] with Len(digits) = Mantissa,          *)
(* digits[1] = 1 and the value 0.d1 d2 ... d53 (binary) * 2^exp.            *)

\* sys.float_info.mant_dig
Mantissa == 53

Zero == [digits |-> <<>>, exp |-> 0]

\* the binary digits of a natural number, most significant first
RECURSIVE Digits(_)
Digits(n) == IF n = 0 THEN <<>> ELSE Append(Digits(n \div 2), n % 2)

\* the natural number of binary digits
RECURSIVE Value(_)
Value(d) == IF d = <<>> THEN 0 ELSE 2 * Value(Front(d)) + Last(d)

\* d with zeros in front, n digits in all
Padded(d, n) == [i \in 1..(n - Len(d)) |-> 0] \o d

\* the digits of Value(d) + 1: the last 0 becomes 1 and the 1s after it 0
Incremented(d) ==
    LET zeros == {i \in 1..Len(d) : d[i] = 0}
    IN  IF zeros = {} THEN <<1>> \o [i \in 1..Len(d) |-> 0]
        ELSE LET k == CHOOSE i \in zeros : \A j \in zeros : j <= i
             IN  [i \in 1..Len(d) |-> IF i < k THEN d[i] ELSE IF i = k THEN 1 ELSE 0]

\* round-half-to-even of 0.d * 2^exp to Mantissa digits; d starts with 1,
\* sticky: the exact value has non-zero digits after those of d
RoundToEven(d, sticky, exp) ==
    IF Len(d) <= Mantissa
    THEN [digits |-> d \o [i \in 1..(Mantissa - Len(d)) |-> 0], exp |-> exp]
    ELSE LET kept == SubSeq(d, 1, Mantissa)
             guard == d[Mantissa + 1]
             rest == sticky \/ \E i \in (Mantissa + 2)..Len(d) : d[i] = 1
             up == guard = 1 /\ (rest \/ kept[Mantissa] = 1)
             inc == Incremented(kept)
         IN  IF ~up THEN [digits |-> kept, exp |-> exp]
             ELSE IF Len(inc) > Mantissa THEN [digits |-> Front(inc), exp |-> exp + 1]
             ELSE [digits |-> inc, exp |-> exp]

\* a / b = (A / D) * 2^E with 1/2 <= A / D < 1
RECURSIVE Normalized(_, _, _)
Normalized(A, D, E) ==
    IF A >= D THEN Normalized(A, 2 * D, E + 1)
    ELSE IF 2 * A < D THEN Normalized(2 * A, D, E - 1)
    ELSE [A |-> A, D |-> D, E |-> E]

\* 2^i modulo D
RECURSIVE Pow2Mod(_, _)
Pow2Mod(i, D) ==
    IF i = 0 THEN 1 % D
    ELSE LET half == Pow2Mod(i \div 2, D)
         IN  (half * half * (IF i % 2 = 1 THEN 2 ELSE 1)) % D

\* the first n binary digits of A / D after the point (0 <= A < D) and the
\* remainder left after them: digit i is floor(2 * r / D) for the remainder
\* r = A * 2^(i-1) mod D left after digit i - 1
Quotient(A, D, n) ==
    [digits |-> [i \in 1..n |-> (2 * ((A * Pow2Mod(i - 1, D)) % D)) \div D],
     rem |-> (A * Pow2Mod(n, D)) % D]

\* a / b of two ints (a >= 0, b > 0): the nearest float
truediv(a, b) ==
    IF a = 0 THEN Zero
    ELSE LET n == Normalized(a, b, 0)
             q == Quotient(n.A, n.D, Mantissa + 1)
         IN  RoundToEven(q.digits, q.rem # 0, n.E)

\* the digits of a number are multiplied in groups of this many
Group == Mantissa \div 4

\* the digits of n * Value(d) + carry, a group of digits at a time from the
\* right
RECURSIVE Times(_, _, _)
Times(d, n, carry) ==
    IF Len(d) <= Group THEN Digits(n * Value(d) + carry)
    ELSE LET t == n * Value(SubSeq(d, Len(d) - Group + 1, Len(d))) + carry
         IN  Times(SubSeq(d, 1, Len(d) - Group), n, t \div (2 ^ Group))
                \o Padded(Digits(t % (2 ^ Group)), Group)

\* n * f of an int n >= 0 and a float f: the nearest float to the product
mul(n, f) ==
    IF n = 0 \/ f = Zero THEN Zero
    ELSE LET product == Times(f.digits, n, 0)
         IN  RoundToEven(product, FALSE, f.exp + Len(product) - Mantissa)

int_rounding(f) ==
    IF f = Zero \/ f.exp < 0 THEN 0
    ELSE Value(SubSeq(f.digits, 1, f.exp)) + f.digits[f.exp + 1]

\* int(f) of a float f >= 0: the integer part
int(f) ==
    IF f = Zero \/ f.exp <= 0 THEN 0
    ELSE Value(SubSeq(f.digits, 1, f.exp))

---------------------------------------------------------------------------
(* add_watermark, lines 46-63: the size, the opacity and the position of   *)
(* the logo                                                                *)

\* the literal 0.2 of line 47: the float nearest to 1/5
ScaleFraction == truediv(1, 5)
\* the literal 0.5 of line 52
Opacity == truediv(1, 2)
\* the 20px padding of line 56
Padding == 20
\* the largest value of a pixel of the alpha band
MaxAlpha == 255

\* lines 47-49: watermark_width, watermark_height and the resize, which
\* raises ValueError for a width or a height below 1
WmResize ==
    /\ wm.pc = "open"
    /\ LET watermark_width == int(mul(wm.base[1], ScaleFraction))
           watermark_height ==
               int(mul(watermark_width, truediv(wm.logo[2], wm.logo[1])))
       IN  wm' = [wm EXCEPT !.size = <<watermark_width, watermark_height>>,
                            !.pc = IF watermark_width < 1 \/ watermark_height < 1
                                   THEN "raised" ELSE "resized"]
    /\ UNCHANGED <<now, fs, sw, proc, del, nextId, log>>

\* lines 52-53: point(lambda p: int(p * 0.5)) on the alpha band
WmOpacity ==
    /\ wm.pc = "resized"
    /\ wm' = [wm EXCEPT !.alpha = int(mul(wm.a, Opacity)), !.pc = "faded"]
    /\ UNCHANGED <<now, fs, sw, proc, del, nextId, log>>

\* lines 56-63: the position, handed to paste as it is
WmPaste ==
    /\ wm.pc = "faded"
    /\ wm' = [wm EXCEPT !.position = <<wm.base[1] - wm.size[1] - Padding,
                                       wm.base[2] - wm.size[2] - Padding>>,
                        !.pc = "pasted"]
    /\ UNCHANGED <<now, fs, sw, proc, del, nextId, log>>

\* base image sizes: too small for any logo, too small for logo and padding,
\* and ordinary ones
BaseSizes == {<<4, 30>>, <<10, 15>>, <<100, 30>>, <<245, 600>>, <<1000, 600>>}
\* logo sizes (width, height)
LogoSizes == {<<100, 100>>, <<500, 200>>, <<490, 20>>}

InitMark ==
    /\ now = StartTime
    /\ fs = [f \in Folders |-> [n \in {} |-> 0]]
    /\ sw = SwStart0
    /\ proc = ProcIdle
    /\ del = [t \in DelThreads |-> DelIdle]
    /\ nextId = 1
    /\ log = <<>>
    /\ \E base \in BaseSizes, logo \in LogoSizes, a \in 0..MaxAlpha :
          wm = [NoMark EXCEPT !.pc = "open", !.base = base, !.logo = logo, !.a = a]

NextMark == WmResize \/ WmOpacity \/ WmPaste

SpecMark == InitMark /\ [][NextMark]_vars

---------------------------------------------------------------------------
(* The sweeper alone: no request is handled *)

SweepNames == {<<"a", "jpg">>, <<"b", "HEIC">>, <<"c", "txt">>}

InitSweep ==
    \E U \in Dirs(UPLOAD_FOLDER, SweepNames, {"JPEG"}, InitTimes),
       W \in Dirs(WATERMARKED_FOLDER, Range(ProcessedNames), {"JPEG"}, InitTimes) :
        InitWith(U, W)

NextSweep == Tick \/ cleanup_old_files

SpecSweep == InitSweep /\ [][NextSweep]_vars

---------------------------------------------------------------------------
(* One batch at a time and nothing else: no sweeper, no other request *)

\* staged images of every format under every recognized name, with or
\* without a file of an unrecognized extension beside them
InitBatch ==
    \E U \in Dirs(UPLOAD_FOLDER, {<<"a", "jpg">>, <<"b", "HEIC">>, <<"d", "png">>},
                  Formats, {StartTime - 1}),
       X \in Dirs(UPLOAD_FOLDER, {<<"c", "txt">>}, {"JPEG"}, {StartTime - 1}),
       W \in Dirs(WATERMARKED_FOLDER, {<<"watermarked_a", "jpg">>}, {"JPEG"},
                  {StartTime - 1}) :
        InitWith(U @@ X, W)

NextBatch == process_files

SpecBatch == InitBatch /\ [][NextBatch]_vars

---------------------------------------------------------------------------
(* Uploads while a batch runs: /stage and /process interleaved, no sweeper, *)
(* no delete                                                               *)

\* two staged names with one stem, each there or not
InitUpload ==
    \E U \in Dirs(UPLOAD_FOLDER, {<<"a", "jpg">>, <<"a", "jpeg">>}, {"JPEG", "PNG"},
                  {StartTime - 1}) :
        InitWith(U, [n \in {} |-> 0])

NextUpload == process_files \/ stage_files

SpecUpload == InitUpload /\ [][NextUpload]_vars

---------------------------------------------------------------------------
(* Sequential runs: a handler or a sweep runs only while every other one is *)
(* at rest                                                                 *)

SweeperAtRest == sw.pc \in {"start", "sleep", "dead"}
ProcAtRest == proc.pc = "idle"
DelAtRest(t) == del[t].pc = "idle"

InitSeq ==
    \E U \in Dirs(UPLOAD_FOLDER, {<<"a", "jpg">>, <<"c", "txt">>}, {"JPEG"},
                  {StartTime - TTL - 1, StartTime - 1}),
       W \in Dirs(WATERMARKED_FOLDER, Range(ProcessedNames), {"JPEG"},
                  {StartTime - TTL - 1, StartTime - 1}) :
        InitWith(U, W)

NextSeq ==
    \/ ProcAtRest /\ (\A t \in DelThreads : DelAtRest(t)) /\ cleanup_old_files
    \/ SweeperAtRest /\ (\A t \in DelThreads : DelAtRest(t)) /\ process_files
    \/ SweeperAtRest /\ ProcAtRest /\ (\A t \in DelThreads : DelAtRest(t)) /\ stage_files
    \/ \E t \in DelThreads :
          /\ SweeperAtRest /\ ProcAtRest /\ \A u \in DelThreads \ {t} : DelAtRest(u)
          /\ (delete_file(t) \/ delete_original_file(t))

SpecSeq == InitSeq /\ [][NextSeq]_vars

---------------------------------------------------------------------------
(* The server: the sweeper thread and the request handlers, interleaved *)

Init ==
    \E U \in Dirs(UPLOAD_FOLDER, {<<"a", "jpg">>}, {"JPEG"},
                  {StartTime - TTL - 1, StartTime - 1}),
       W \in Dirs(WATERMARKED_FOLDER, {<<"watermarked_a", "jpg">>}, {"JPEG"},
                  {StartTime - TTL - 1, StartTime - 1}) :
        InitWith(U, W)

Next ==
    \/ cleanup_old_files
    \/ process_files
    \/ stage_files
    \/ \E t \in DelThreads : delete_file(t) \/ delete_original_file(t)

Spec == Init /\ [][Next]_vars

\* the cleanup thread is scheduled as long as it has a step to take
FairSpec == Spec /\ WF_vars(cleanup_old_files)

---------------------------------------------------------------------------
(* Properties of one sweep (SpecSweep) *)

\* the sweep has examined both folders and is about to sleep
EndOfSweep == sw.pc = "scan" /\ sw.todo = {} /\ sw.folder = WATERMARKED_FOLDER

\* C1: in one sweep with no request activity, the cutoff is the time at the
\* start of the sweep minus 24 hours and stays fixed; a file leaves a folder
\* only if its modification time is strictly older than the cutoff, every
\* other file stays as it is, and when the sweep ends no file of either
\* folder is strictly older than the cutoff.
C1_SweepEvictsExactlyTheOld ==
    [][ /\ (sw.pc = "start" /\ sw'.pc = "scan") => sw'.cutoff = now - TTL
        /\ (sw.pc \in {"scan", "mtime", "remove"} /\ sw'.pc \in {"scan", "mtime", "remove"})
              => sw'.cutoff = sw.cutoff
        /\ \A d \in Folders :
              /\ DOMAIN fs'[d] \subseteq DOMAIN fs[d]
              /\ \A n \in DOMAIN fs[d] :
                    IF n \in DOMAIN fs'[d]
                    THEN fs'[d][n] = fs[d][n]
                    ELSE sw.pc = "remove" /\ fs[d][n].mtime < sw.cutoff
        /\ (EndOfSweep /\ sw'.pc = "sleep")
              => \A d \in Folders : \A n \in DOMAIN fs[d] : fs[d][n].mtime >= sw.cutoff
      ]_vars

\* the sweeper is removing a file older than the cutoff after it has kept a
\* file of the same folder whose modification time is exactly the cutoff
C1_Witness ==
    /\ sw.pc = "remove"
    /\ Exists(sw.folder, sw.cur)
    /\ fs[sw.folder][sw.cur].mtime < sw.cutoff
    /\ \E n \in DOMAIN fs[sw.folder] \ (sw.todo \cup {sw.cur}) :
          fs[sw.folder][n].mtime = sw.cutoff

---------------------------------------------------------------------------
(* Properties of the sweeper among the request handlers (Spec, FairSpec) *)

\* C2: a file removed by a request between the sweeper's listing and its
\* removal of that file never terminates the sweeper thread.
C2_SweeperNeverTerminates == sw.pc # "dead"

\* C3: the sweeper cycles Idle -> Scanning -> Idle forever: a scan is left
\* only for Idle and Idle only for a scan, every scan ends in Idle, every Idle
\* is followed by a scan, and a file older than 24 hours is eventually gone
\* from its folder (removed, or replaced by a newer one).
C3_SweeperCyclesForever ==
    /\ [][(Scanning => Scanning' \/ Idle') /\ (Idle => Idle' \/ Scanning')]_vars
    /\ Scanning ~> Idle
    /\ Idle ~> Scanning
    /\ \A d \in Folders : \A n \in Range(StagedNames) \cup Range(ProcessedNames) :
          (n \in DOMAIN fs[d] /\ fs[d][n].mtime < now - TTL)
             ~> (n \notin DOMAIN fs[d] \/ fs[d][n].mtime >= now - TTL)

---------------------------------------------------------------------------
(* Properties of one batch (SpecBatch) *)

Listing(folder) == {f \in DOMAIN fs[folder] : allowed_file(f)}

\* the names of the files the batch has written into the watermarked folder
WrittenNames == {w.name : w \in proc.written}
BatchFailed == proc.pc = "idle" /\ proc.resp.code = 500
BatchSucceeded == proc.pc = "idle" /\ proc.resp.code = 200
\* the files of the snapshot processed before the one the loop is at
ProcessedBefore == proc.files \ (proc.todo \cup {proc.cur})
\* the loop has just processed proc.cur: output saved, original removed, link appended
JustProcessed == (proc.pc = "loop" /\ proc.links # <<>>) \/ BatchSucceeded
\* the file just processed is a HEIC/HEIF image whose HEIC encoding failed
HeicEncodeFailed ==
    /\ proc.img.fmt \in {"HEIC", "HEIF"}
    /\ proc.out \in DOMAIN fs[WATERMARKED_FOLDER]
    /\ fs[WATERMARKED_FOLDER][proc.out].fmt = "JPEG"

\* C4: when a file of the batch fails, the response is an error naming that
\* file; the failing file and every file after it in the snapshot are still
\* staged, no output was made from a file after it, every file before it is
\* gone from the staged store and every output the batch saved is still in
\* the processed store, one link made per file before it.
C4_FailFast ==
    BatchFailed =>
        /\ proc.resp.name = proc.cur
        /\ Last(log) = [op |-> "process", name |-> proc.cur, code |-> 500]
        /\ proc.cur \in DOMAIN fs[UPLOAD_FOLDER]
        /\ \A f \in proc.todo :
              /\ f \in DOMAIN fs[UPLOAD_FOLDER]
              /\ \A w \in proc.written : w.id # fs[UPLOAD_FOLDER][f].id
        /\ \A f \in ProcessedBefore : f \notin DOMAIN fs[UPLOAD_FOLDER]
        /\ WrittenNames \subseteq DOMAIN fs[WATERMARKED_FOLDER]
        /\ Len(proc.links) = Cardinality(ProcessedBefore)
        /\ (ProcessedBefore # {}) => (proc.written # {})

\* a batch failed after it had processed a file and before it reached another
C4_Witness ==
    /\ BatchFailed
    /\ proc.todo # {}
    /\ ProcessedBefore # {}
    /\ proc.written # {}

\* C5: when the HEIC encoding of a HEIC/HEIF image (staged under a .heic or
\* .heif name) fails, the file is
\* reported as processed and the filename reported for it ends in .jpg, the
\* name of the JPEG file that was written.
C5_HeicFallbackReportedAsJpg ==
    (JustProcessed /\ HeicEncodeFailed /\ output_ext(proc.cur) = <<"heic">>) =>
        /\ Last(Last(proc.links)) = "jpg"
        /\ Last(proc.links) = proc.out

\* C6: after a successful batch the staged store lists no file, there is one
\* link per file of the snapshot, and the files the batch saved in the
\* processed store are exactly the filenames of the links.
C6_SuccessfulBatchResults ==
    BatchSucceeded =>
        /\ Listing(UPLOAD_FOLDER) = {}
        /\ Len(proc.links) = Cardinality(proc.files)
        /\ Range(proc.links) \subseteq DOMAIN fs[WATERMARKED_FOLDER]
        /\ WrittenNames = Range(proc.links)

\* C7: the file add_watermark has saved has the format and the extension of
\* the dispatch table for the decoded source format, whatever extension the
\* requested output name has, under the stem of the requested name.
C7_SavedFileFollowsDispatchTable ==
    proc.pc = "remove" =>
        /\ proc.out \in DOMAIN fs[WATERMARKED_FOLDER]
        /\ Front(proc.out) = Front(output_filename(proc.cur))
        /\ LET saved == <<fs[WATERMARKED_FOLDER][proc.out].fmt, Last(proc.out)>>
               source == proc.img.fmt
           IN  CASE source = "JPEG" -> saved = <<"JPEG", "jpg">>
                 [] source = "PNG" -> saved = <<"PNG", "png">>
                 [] source \in {"HEIC", "HEIF"} ->
                        saved \in {<<"HEIC", "heic">>, <<"JPEG", "jpg">>}
                 [] OTHER -> saved = <<"JPEG", "jpg">>

\* add_watermark has saved a HEIC file under .heic although the requested
\* output name ended in .jpg
C7_Witness ==
    /\ proc.pc = "remove"
    /\ proc.img.fmt = "HEIF"
    /\ Last(output_filename(proc.cur)) = "jpg"
    /\ Last(proc.out) = "heic"
    /\ fs[WATERMARKED_FOLDER][proc.out].fmt = "HEIC"

\* C8: for a decodable file whose encoding did not fall back, the filename
\* reported is watermarked_<stem><extension the dispatch policy chose for the
\* decoded format>: the name of the file saved in the processed store.
C8_ReportedNameIsSavedName ==
    (JustProcessed /\ ~HeicEncodeFailed) =>
        /\ Last(proc.links) \in DOMAIN fs[WATERMARKED_FOLDER]
        /\ Last(proc.links) = proc.out
        /\ Last(proc.links) =
              with_prefix(rsplit_stem(proc.cur)) \o dispatch(proc.img.fmt, FALSE).ext

---------------------------------------------------------------------------
(* Properties of the delete handlers (SpecSeq, Spec) *)

DeleteOps == {"delete", "delete_original"}
FolderOf(op) == IF op = "delete" THEN WATERMARKED_FOLDER ELSE UPLOAD_FOLDER

\* the extension of the name, lower-cased, is one of the five recognized ones
RecognizedExtension(name) ==
    /\ Len(name) >= 2
    /\ Last(name) \in {"jpg", "jpeg", "png", "heic", "heif", "JPG", "PNG", "HEIC"}

\* entry j of the log answers a delete of a file that an earlier delete of
\* the same store removed, with no upload or processing answered in between
SecondDelete(lg, j) ==
    \E i \in 1..(j - 1) :
       /\ lg[i].op = lg[j].op
       /\ lg[i].name = lg[j].name
       /\ lg[i].code = 200
       /\ \A k \in (i + 1)..(j - 1) : lg[k].op \in DeleteOps

\* C9: in a sequential run, a delete answers 200 or 404; 200 exactly when the
\* file is in the store and has a recognized extension, and then that file
\* and nothing else is removed; 404 leaves both stores as they are; and a
\* second delete of a removed file, with no upload or processing in between,
\* answers 404.
C9_SequentialDelete ==
    [][ (Len(log') > Len(log) /\ Last(log').op \in DeleteOps) =>
          LET e == Last(log')
              d == FolderOf(e.op)
              present == e.name \in DOMAIN fs[d] /\ RecognizedExtension(e.name)
          IN  /\ e.code \in {200, 404}
              /\ (e.code = 200) <=> present
              /\ (e.code = 200) => fs' = [fs EXCEPT ![d] = Removed(@, e.name)]
              /\ (e.code = 404) => fs' = fs
              /\ SecondDelete(log', Len(log')) => e.code = 404
      ]_vars

\* a delete of a staged file answered 200 and the next delete of it 404
C9_Witness ==
    /\ Len(log) = 2
    /\ log[1] = [op |-> "delete_original", name |-> <<"a", "jpg">>, code |-> 200]
    /\ log[2] = [op |-> "delete_original", name |-> <<"a", "jpg">>, code |-> 404]

\* C10: under any interleaving, every delete request is answered ok (200) or
\* NotFound (404).
C10_DeleteOkOrNotFound ==
    \A i \in 1..Len(log) : log[i].op \in DeleteOps => log[i].code \in {200, 404}

---------------------------------------------------------------------------
(* Properties of the watermark arithmetic (SpecMark) *)

\* C12: the logo is scaled to width w = floor(0.2 * W) and height
\* h = floor(w * logoHeight / logoWidth) and pasted with its top-left corner
\* at exactly (W - w - 20, H - h - 20), negative coordinates included.
C12_Placement ==
    wm.pc = "pasted" =>
        LET W == wm.base[1]
            H == wm.base[2]
            w == W \div 5
            h == (w * wm.logo[2]) \div wm.logo[1]
        IN  /\ wm.size = <<w, h>>
            /\ wm.position = <<W - w - 20, H - h - 20>>

\* C13: for every alpha a in 0..255 of a logo pixel, the alpha used for
\* compositing is floor(a * 0.5), the same on every call.
C13_OpacityIsFloorOfHalf ==
    wm.pc \in {"faded", "pasted"} =>
        /\ 2 * wm.alpha <= wm.a
        /\ wm.a < 2 * (wm.alpha + 1)
        /\ wm.alpha \in 0..(MaxAlpha \div 2)

\* the largest and odd alpha 255 was reduced to 127
C13_Witness == wm.pc = "faded" /\ wm.a = MaxAlpha /\ wm.alpha = 127

---------------------------------------------------------------------------
(* Properties of a batch among uploads (SpecUpload) *)

\* C11: the batch works on the snapshot taken at its start: the snapshot
\* stays as it is while the batch runs, and a staged file whose name is not
\* in the snapshot is left as it is by every step of the batch and no output
\* is made from it.
C11_BatchWorksOnSnapshot ==
    [][ (proc.pc # "idle" /\ proc' # proc) =>
          /\ proc'.files = proc.files
          /\ \A n \in DOMAIN fs[UPLOAD_FOLDER] \ proc.files :
                /\ n \in DOMAIN fs'[UPLOAD_FOLDER]
                /\ fs'[UPLOAD_FOLDER][n] = fs[UPLOAD_FOLDER][n]
                /\ \A w \in proc'.written : w.id # fs[UPLOAD_FOLDER][n].id
      ]_vars

\* a batch has returned success and a file uploaded after its snapshot, under
\* a name that is not in the snapshot, is staged
C11_Witness ==
    /\ BatchSucceeded
    /\ \E n \in DOMAIN fs[UPLOAD_FOLDER] \ proc.files :
          allowed_file(n) /\ fs[UPLOAD_FOLDER][n].id >= 1

\* C15: the batch removes a staged file only if the content it removes is
\* the content it watermarked.
C15_RemovesWhatItWatermarked ==
    [][ (proc.pc = "remove" /\ proc'.pc = "loop") =>
          /\ proc.cur \in DOMAIN fs[UPLOAD_FOLDER]
          /\ fs[UPLOAD_FOLDER][proc.cur].id = proc.img.id
      ]_vars

\* C16: two distinct staged filenames of a batch never have the same output
\* filename, no output written by the batch is overwritten later in the
\* batch, and each processed file has its own file in the processed store.
C16_OutputsAreDistinct ==
    /\ BatchSucceeded =>
          \A f, g \in proc.files : f # g => output_filename(f) # output_filename(g)
    /\ \A w \in proc.written :
          /\ w.name \in DOMAIN fs[WATERMARKED_FOLDER]
          /\ fs[WATERMARKED_FOLDER][w.name].id = w.id
    /\ \A v, w \in proc.written : v.id # w.id => v.name # w.name

---------------------------------------------------------------------------
(* Properties of the sweeper among uploads (Spec) *)

\* C14: the sweeper removes a file only if the modification time the file
\* has at the moment of the removal is strictly older than the cutoff of the
\* sweep.
C14_SweeperRemovesOnlyOldFiles ==
    [][ (sw.pc = "remove" /\ sw'.pc = "scan" /\ Exists(sw.folder, sw.cur)) =>
          fs[sw.folder][sw.cur].mtime < sw.cutoff
      ]_vars

---------------------------------------------------------------------------
(* Properties of the staged store in sequential runs (SpecSeq) *)

\* C17: a file is written into the staged store only under a filename with a
\* recognized extension, and every staged file uploaded since the start has
\* a recognized extension.
C17_OnlyRecognizedExtensionsStaged ==
    /\ [](\A n \in DOMAIN fs[UPLOAD_FOLDER] :
             fs[UPLOAD_FOLDER][n].id >= 1 => RecognizedExtension(n))
    /\ [][ \A n \in DOMAIN fs'[UPLOAD_FOLDER] :
              (n \notin DOMAIN fs[UPLOAD_FOLDER]
                 \/ fs'[UPLOAD_FOLDER][n] # fs[UPLOAD_FOLDER][n])
                => RecognizedExtension(n)
         ]_vars

\* an upload request carrying a file was answered with success and has
\* written nothing: the file had an unrecognized extension or none
C17_Witness ==
    /\ nextId = 1
    /\ \E i \in 1..Len(log) : log[i] = [op |-> "stage", name |-> <<>>, code |-> 200]

---------------------------------------------------------------------------
(* Properties of a batch with nothing to process (SpecBatch) *)

NoFilesToProcess == [op |-> "process", name |-> <<>>, code |-> 400]

\* C18: a batch started when the staged store lists no file with a
\* recognized extension, in particular right after a fully successful batch,
\* answers the error 'No files to process' and leaves both stores as they
\* are.
C18_NothingToProcess ==
    [][ (/\ proc.pc = "idle"
         /\ proc' # proc
         /\ \/ Listing(UPLOAD_FOLDER) = {}
            \/ (log # <<>> /\ Last(log).op = "process" /\ Last(log).code = 200)) =>
          /\ log' = Append(log, NoFilesToProcess)
          /\ proc'.pc = "idle"
          /\ fs' = fs
      ]_vars

\* a second batch right after a successful one was answered 'No files to
\* process' while a file with an unrecognized extension is staged
C18_Witness ==
    /\ Len(log) = 2
    /\ log[1] = [op |-> "process", name |-> <<>>, code |-> 200]
    /\ log[2] = NoFilesToProcess
    /\ <<"c", "txt">> \in DOMAIN fs[UPLOAD_FOLDER]

============================================================================
